---- MODULE Spec2Model ----
(***************************************************************************)
(* Model of vclust's boundary-inference engine:                            *)
(*   - profile.rs : get_profile / update_profs (per-sample profile)        *)
(*   - extend.rs  : get_extension_offsets / extend_to_ref_flanks           *)
(*   - main.rs    : task_thread workers and the collector loop of main     *)
(* Three specifications share the module: SpecOffsets (extend.rs),         *)
(* SpecProfile (profile.rs) and SpecMain (main.rs).                        *)
(*                                                                         *)
(* Indexing: Rust slices are 0-based, TLA+ sequences 1-based; a Rust       *)
(* alts[i] is written alts[i + 1] here, and every position kept in the     *)
(* state (span, lf_pos, rf_pos, ref_pos) is the Rust, 0-based value.       *)
(***************************************************************************)
EXTENDS Integers, Sequences, FiniteSets, TLC

VARIABLES
    \* ---- extend.rs : get_extension_offsets -------------------------------
    xpc,        \* position in get_extension_offsets
    locusStart, \* locus.start
    locusLen,   \* locus.end - locus.start
    nBams,      \* bams.len()
    bamIdx,     \* how many bams the for loop of line 22 has visited
    sumAlts,    \* sum_alts: None or Some(vector), hundredths
    sumDepth,   \* sum_depth, hundredths
    count,      \* count
    ns,         \* ns
    anyFailed,  \* history: some get_profile call of this locus returned Err
    signal,     \* alts after discretize (line 53)
    spans,      \* the successive bindings of `span` (lines 55-59)
    passNo,     \* the next pass to run, 1..4 (5: all done)
    result,     \* the Option returned by get_extension_offsets
    \* ---- profile.rs : get_profile -----------------------------------------
    ppc,        \* position in get_profile
    bamKind,    \* which pool of records the alignment file holds
    index,      \* the enumerate() index of the next record
    covs,       \* covs
    palts,      \* alts (of get_profile)
    anyAlt,     \* any_alt, the usize counter of get_profile
    lastRec,    \* the record of the last loop iteration
    lastStrong, \* what update_profs returned for it
    nRetained,  \* history: records that passed the filter of line 29
    profResult, \* the Result returned by get_profile
    \* ---- main.rs ------------------------------------------------------------
    mpc,        \* position of main
    wpc,        \* position of each task_thread
    wlocus,     \* the locus each task_thread is running (0: none)
    outcome,    \* what run_workflow does with each locus
    taskq,      \* task channel
    resultq,    \* result channel
    pushed,     \* loci sent so far by main
    signalled,  \* sentinels sent so far by main
    nDone,      \* n_done
    taken,      \* history: how many times each locus was received
    runs,       \* history: how many times run_workflow ran on each locus
    printed     \* history: how many times each locus's result was printed

xvars == <<xpc, locusStart, locusLen, nBams, bamIdx, sumAlts, sumDepth, count,
           ns, anyFailed, signal, spans, passNo, result>>
pvars == <<ppc, bamKind, index, covs, palts, anyAlt, lastRec, lastStrong,
           nRetained, profResult>>
mvars == <<mpc, wpc, wlocus, outcome, taskq, resultq, pushed, signalled,
           nDone, taken, runs, printed>>
vars == <<xvars, pvars, mvars>>

None == <<>>
Some(x) == <<x>>

Max(a, b) == IF a >= b THEN a ELSE b
Min(a, b) == IF a <= b THEN a ELSE b

(***************************************************************************)
(* Bounds of the model.  The window lengths and RADIUS are scaled down so  *)
(* that every signal over the padded region can be enumerated.             *)
(***************************************************************************)
\* RADIUS of models.rs, scaled; like the source value it exceeds the longest window
RADIUS == 5
\* the window lengths 150, 50, 25, 10 of extend.rs lines 56-59, scaled
PassLen1 == 4
PassLen2 == 3
PassLen3 == 2
PassLen4 == 1
\* longest locus (locus.end - locus.start)
MaxLocusLen == 2
\* most alignment files (samples) of one run
MaxBams == 2

WindowLens == <<PassLen1, PassLen2, PassLen3, PassLen4>>

\* the levels (of the six discretize can produce) the enumerated signals use
SignalLevels == {0, 5}

(***************************************************************************)
(* extend.rs : assess_window and get_loglik.  The tables MODEL_REF and     *)
(* MODEL_VC and the priors live in models.rs; they are given here as       *)
(* log-probabilities in tenths of a nat, indexed pos * 6 + val as in       *)
(* get_loglik.                                                             *)
(***************************************************************************)
\* ln(MODEL_REF[i]): a reference flank shows low levels at every offset
LnModelRef(i) == -(2 + 20 * (i % 6))

\* ln(MODEL_VC[i]): next to the boundary (offset 0) a variant shows high
\* levels; further out the levels are uninformative
LnModelVc(i) == IF i \div 6 = 0 THEN -(2 + 20 * (5 - (i % 6))) ELSE -60

\* ln(PRIOR_REF), ln(PRIOR_VC)
LnPriorRef == -7
LnPriorVc == -7

RECURSIVE LoglikFrom(_, _, _)
LoglikFrom(prof, ref, pos) ==
    IF pos >= Len(prof) THEN 0
    ELSE (IF ref THEN LnModelRef(pos * 6 + prof[pos + 1])
                 ELSE LnModelVc(pos * 6 + prof[pos + 1]))
         + LoglikFrom(prof, ref, pos + 1)

\* get_loglik(prof, model): ref selects MODEL_REF (TRUE) or MODEL_VC (FALSE)
GetLoglik(prof, ref) == LoglikFrom(prof, ref, 0)

\* assess_window(vals) >= 0.5.  The posterior is
\*   exp(ll_norm - ln(exp(ll_norm) + exp(ll_poly))) = 1 / (1 + exp(ll_poly - ll_norm)),
\* which is >= 0.5 exactly when ll_poly <= ll_norm.
AssessWindowAccepts(vals) ==
    LET ll_norm == GetLoglik(vals, TRUE) + LnPriorRef
        ll_poly == GetLoglik(vals, FALSE) + LnPriorVc
    IN  ll_norm >= ll_poly

\* &alts[from..from + n]
Window(alts, from, n) == [i \in 1..n |-> alts[from + i]]
\* window.iter().rev()
Reversed(w) == [i \in 1..Len(w) |-> w[Len(w) + 1 - i]]

\* the loop of lines 97-105: the value of lf_pos when it ends
RECURSIVE LeftScan(_, _, _)
LeftScan(alts, lf_pos, window_len) ==
    IF lf_pos >= 0
    THEN IF AssessWindowAccepts(Reversed(Window(alts, lf_pos, window_len)))
         THEN lf_pos
         ELSE LeftScan(alts, lf_pos - 1, window_len)
    ELSE lf_pos

\* the loop of lines 112-120: the value of rf_pos when it ends
RECURSIVE RightScan(_, _, _)
RightScan(alts, rf_pos, window_len) ==
    IF rf_pos <= Len(alts) - window_len
    THEN IF AssessWindowAccepts(Window(alts, rf_pos, window_len))
         THEN rf_pos
         ELSE RightScan(alts, rf_pos + 1, window_len)
    ELSE rf_pos

\* a copy-paste slip: the right scan started like the left one
ExtendToRefFlanksMirrored(alts, span, window_len) ==
    LET lf_pos == LeftScan(alts, span[1] - window_len, window_len)
        rf_pos == RightScan(alts, Max(0, span[2] - window_len), window_len)
    IN  IF lf_pos = 0 THEN None
        ELSE IF Len(alts) - window_len < rf_pos THEN None
        ELSE Some(<<lf_pos + window_len, rf_pos>>)

\* extend_to_ref_flanks
ExtendToRefFlanks(alts, span, window_len) ==
    LET lf_pos == LeftScan(alts, span[1] - window_len, window_len)
    IN  IF lf_pos = 0 THEN None
        ELSE LET rf_pos == RightScan(alts, span[2], window_len)
             IN  IF Len(alts) - window_len < rf_pos THEN None
                 ELSE Some(<<lf_pos + window_len, rf_pos>>)

\* discretize, on the quotient val = num / den of a sum in hundredths and a
\* count den > 0 (no division: val < t is num < t * den):
\* val <= 0.10 -> 0, < 0.25 -> 1, < 0.75 -> 2, < 1.50 -> 3, < 5.00 -> 4, else 5
Discretize(num, den) ==
    IF num <= 10 * den THEN 0
    ELSE IF num < 25 * den THEN 1
    ELSE IF num < 75 * den THEN 2
    ELSE IF num < 150 * den THEN 3
    ELSE IF num < 500 * den THEN 4
    ELSE 5

(***************************************************************************)
(* extend.rs : get_extension_offsets                                       *)
(***************************************************************************)
\* extend_region: Err when the locus is too close to the chromosome start
ExtendRegion(start, len) ==
    IF start < RADIUS THEN None
    ELSE Some(<<start - RADIUS, start + len + RADIUS>>)

RegionLen(len) == len + 2 * RADIUS

\* What get_profile can hand back for one sample (profile.rs lines 20-48):
\* the three Err results, a panic of update_profs, or Ok((prof, any_alt)).
\* Numbers are hundredths.  The Ok profiles are flat, or raised over the
\* locus only.
ProfErrors == {"fetch", "record", "High depth"}
FlatAlts(len, v) == [i \in 1..RegionLen(len) |-> v]
BumpAlts(len, v) ==
    [i \in 1..RegionLen(len) |->
        IF i > RADIUS /\ i <= RADIUS + len THEN v ELSE 0]
ProfAlts(len) == {FlatAlts(len, 0), FlatAlts(len, 600), BumpAlts(len, 600)}
ProfDepths == {300, 1000, 20000}
ProfOutcomes(len) ==
    [kind : {"err"}, err : ProfErrors]
    \cup [kind : {"panic"}]
    \cup [kind : {"ok"}, alts : ProfAlts(len), depth : ProfDepths,
          any_alt : BOOLEAN]

\* the accumulators of the for loop
Acc == [pc |-> xpc, idx |-> bamIdx, sum_alts |-> sumAlts,
        sum_depth |-> sumDepth, count |-> count, ns |-> ns]

\* a slip: a failed sample is skipped and the others are still averaged
LoopBodySkipFailed(acc, o) ==
    IF o.kind = "err" THEN [acc EXCEPT !.idx = @ + 1]
    ELSE IF o.kind = "panic" THEN [acc EXCEPT !.pc = "panicked"]
    ELSE [acc EXCEPT
            !.idx = @ + 1,
            !.sum_alts = IF acc.sum_alts = None THEN Some(o.alts)
                         ELSE Some([i \in 1..Len(o.alts) |->
                                      acc.sum_alts[1][i] + o.alts[i]]),
            !.sum_depth = @ + o.depth,
            !.count = @ + 1,
            !.ns = IF o.any_alt /\ o.depth >= 500 THEN @ + 1 ELSE @]

\* lines 23-38: one iteration of `for bam in bams`, o being what
\* get_profile did.  `.ok()?` returns None on any Err.
LoopBody(acc, o) ==
    IF o.kind = "err" THEN [acc EXCEPT !.pc = "none"]
    ELSE IF o.kind = "panic" THEN [acc EXCEPT !.pc = "panicked"]
    ELSE [acc EXCEPT
            !.idx = @ + 1,
            !.sum_alts = IF acc.sum_alts = None THEN Some(o.alts)
                         ELSE Some([i \in 1..Len(o.alts) |->
                                      acc.sum_alts[1][i] + o.alts[i]]),
            !.sum_depth = @ + o.depth,
            !.count = @ + 1,
            !.ns = IF o.any_alt /\ o.depth >= 500 THEN @ + 1 ELSE @]

\* line 12
Region ==
    /\ xpc = "start"
    /\ IF ExtendRegion(locusStart, locusLen) = None
       THEN xpc' = "none"
       ELSE xpc' = "loop"
    /\ UNCHANGED <<locusStart, locusLen, nBams, bamIdx, sumAlts, sumDepth,
                   count, ns, anyFailed, signal, spans, passNo, result>>
    /\ UNCHANGED <<pvars, mvars>>

\* lines 22-39, one sample
Sample ==
    /\ xpc = "loop"
    /\ bamIdx < nBams
    /\ \E o \in ProfOutcomes(locusLen) :
         LET acc == LoopBody(Acc, o)
         IN  /\ xpc' = acc.pc
             /\ bamIdx' = acc.idx
             /\ sumAlts' = acc.sum_alts
             /\ sumDepth' = acc.sum_depth
             /\ count' = acc.count
             /\ ns' = acc.ns
             /\ anyFailed' = (anyFailed \/ o.kind = "err")
    /\ UNCHANGED <<locusStart, locusLen, nBams, signal, spans, passNo, result>>
    /\ UNCHANGED <<pvars, mvars>>

\* lines 41-55: the consensus profile, the depth band, discretize and the
\* first span
Consensus ==
    /\ xpc = "loop"
    /\ bamIdx = nBams
    /\ \/ /\ sumAlts = None
          /\ xpc' = "none"
          /\ UNCHANGED <<signal, spans>>
       \/ /\ sumAlts # None
          /\ (sumDepth < 500 * count \/ sumDepth > 15000 * count)
          /\ xpc' = "none"
          /\ UNCHANGED <<signal, spans>>
       \/ /\ sumAlts # None
          /\ ~(sumDepth < 500 * count \/ sumDepth > 15000 * count)
          /\ signal' = [i \in 1..Len(sumAlts[1]) |->
                          Discretize(sumAlts[1][i], count)]
          /\ spans' = <<(<<RADIUS, RADIUS + locusLen>>)>>
          /\ xpc' = "pass"
    /\ UNCHANGED <<locusStart, locusLen, nBams, bamIdx, sumAlts, sumDepth,
                   count, ns, anyFailed, passNo, result>>
    /\ UNCHANGED <<pvars, mvars>>

\* lines 56-59: one call of extend_to_ref_flanks, `?` returning None
Pass ==
    /\ xpc = "pass"
    /\ passNo <= 4
    /\ LET r == ExtendToRefFlanks(signal, spans[Len(spans)], WindowLens[passNo])
       IN  \/ /\ r = None
              /\ xpc' = "none"
              /\ UNCHANGED <<spans, passNo>>
           \/ /\ r # None
              /\ spans' = Append(spans, r[1])
              /\ passNo' = passNo + 1
              /\ xpc' = xpc
    /\ UNCHANGED <<locusStart, locusLen, nBams, bamIdx, sumAlts, sumDepth,
                   count, ns, anyFailed, signal, result>>
    /\ UNCHANGED <<pvars, mvars>>

\* lines 61-64
Offsets ==
    /\ xpc = "pass"
    /\ passNo = 5
    /\ LET span == spans[Len(spans)]
           lf_offset == RADIUS - span[1]
           rf_offset == span[2] - (RADIUS + locusLen)
       IN  result' = Some(<<lf_offset, rf_offset, ns>>)
    /\ xpc' = "some"
    /\ UNCHANGED <<locusStart, locusLen, nBams, bamIdx, sumAlts, sumDepth,
                   count, ns, anyFailed, signal, spans, passNo>>
    /\ UNCHANGED <<pvars, mvars>>

(***************************************************************************)
(* Values of the variables a specification does not use                    *)
(***************************************************************************)
XIdle ==
    /\ xpc = "idle" /\ locusStart = 0 /\ locusLen = 0 /\ nBams = 0
    /\ bamIdx = 0 /\ sumAlts = None /\ sumDepth = 0 /\ count = 0 /\ ns = 0
    /\ anyFailed = FALSE /\ signal = <<>> /\ spans = <<>> /\ passNo = 1
    /\ result = None

PIdle ==
    /\ ppc = "idle" /\ bamKind = "none" /\ index = 0 /\ covs = <<>>
    /\ palts = <<>> /\ anyAlt = 0 /\ lastRec = None /\ lastStrong = FALSE
    /\ nRetained = 0 /\ profResult = None

MIdle ==
    /\ mpc = "idle" /\ wpc = <<>> /\ wlocus = <<>> /\ outcome = <<>>
    /\ taskq = <<>>
    /\ resultq = <<>> /\ pushed = 0 /\ signalled = 0 /\ nDone = 0
    /\ taken = <<>> /\ runs = <<>> /\ printed = <<>>

(***************************************************************************)
(* SpecOffsets: get_extension_offsets on one locus.  It starts either at   *)
(* the call (the samples' profiles arrive one by one), or right after      *)
(* discretize with any signal over SignalLevels, which is where            *)
(* extend_to_ref_flanks takes over.                                        *)
(***************************************************************************)
InitCall ==
    /\ xpc = "start"
    /\ locusStart \in {RADIUS - 1, RADIUS, RADIUS + 1}
    /\ locusLen \in 1..MaxLocusLen
    /\ nBams \in 0..MaxBams
    /\ bamIdx = 0 /\ sumAlts = None /\ sumDepth = 0 /\ count = 0 /\ ns = 0
    /\ anyFailed = FALSE /\ signal = <<>> /\ spans = <<>> /\ passNo = 1
    /\ result = None

InitDiscretized ==
    /\ xpc = "pass"
    /\ locusStart = RADIUS
    /\ locusLen \in 1..MaxLocusLen
    /\ nBams = 1 /\ bamIdx = 1 /\ count = 1 /\ ns = 0
    /\ signal \in [1..RegionLen(locusLen) -> SignalLevels]
    /\ sumAlts = Some([i \in 1..RegionLen(locusLen) |->
                         IF signal[i] = 0 THEN 0 ELSE 600])
    /\ sumDepth = 1000
    /\ anyFailed = FALSE
    /\ spans = <<(<<RADIUS, RADIUS + locusLen>>)>>
    /\ passNo = 1
    /\ result = None

InitOffsets == (InitCall \/ InitDiscretized) /\ PIdle /\ MIdle

NextOffsets == Region \/ Sample \/ Consensus \/ Pass \/ Offsets

SpecOffsets == InitOffsets /\ [][NextOffsets]_vars

(***************************************************************************)
(* Claims about extend.rs                                                  *)
(***************************************************************************)
\* the positions the left scan of a pass tests, and those it would accept
LeftTested(span, w) == 0..(span[1] - w)
LeftAccepted(alts, span, w) ==
    {p \in LeftTested(span, w) :
        AssessWindowAccepts(Reversed(Window(alts, p, w)))}
RightTested(alts, span, w) == span[2]..(Len(alts) - w)
RightAccepted(alts, span, w) ==
    {r \in RightTested(alts, span, w) : AssessWindowAccepts(Window(alts, r, w))}

SetMax(S) == CHOOSE x \in S : \A y \in S : y <= x
SetMin(S) == CHOOSE x \in S : \A y \in S : y >= x

\* the left scan tested at least one position and accepted none
LeftRanOff(alts, span, w) ==
    LeftTested(span, w) # {} /\ LeftAccepted(alts, span, w) = {}
\* the right scan accepted no position up to the end of the signal
RightRanOff(alts, span, w) == RightAccepted(alts, span, w) = {}

\* passes that returned a span: pass i took spans[i] and returned spans[i + 1]
ReturnedPasses == 1..(Len(spans) - 1)
\* the pass that returned None, if any
FailedPass == IF xpc = "none" /\ spans # <<>> THEN {Len(spans)} ELSE {}

\* C1: a pass whose left scan tested every position down to 0 without an
\* accepted window, or whose right scan ran past the end of the signal,
\* returns no result: no span is ever returned from such a pass.
C1_RunOffReturnsNone ==
    \A i \in ReturnedPasses :
        /\ ~LeftRanOff(signal, spans[i], WindowLens[i])
        /\ ~RightRanOff(signal, spans[i], WindowLens[i])

\* C3: across the passes the span never shrinks (left non-increasing, right
\* non-decreasing), so every span contains the initial span
\* (RADIUS, RADIUS + locus length) and the offsets returned are >= 0.
C3_SpanNeverShrinks ==
    /\ \A i \in ReturnedPasses :
          /\ spans[i + 1][1] <= spans[i][1]
          /\ spans[i + 1][2] >= spans[i][2]
    /\ \A i \in 1..Len(spans) :
          /\ spans[i][1] <= RADIUS
          /\ spans[i][2] >= RADIUS + locusLen
    /\ xpc = "some" => result[1][1] >= 0 /\ result[1][2] >= 0

\* C3 witness: all four passes returned and the span grew on both sides
C3_Witness ==
    /\ xpc = "some"
    /\ Len(spans) = 5
    /\ spans[5][1] < spans[1][1]
    /\ spans[5][2] > spans[1][2]
    /\ \E i \in 2..4 : spans[i] # spans[1] /\ spans[i] # spans[5]

\* C8: get_extension_offsets returns no result whenever the profile build
\* of any one sample fails, wherever the sample stands in the list; offsets
\* are only ever computed from all the samples.
C8_AnyFailureNoResult ==
    /\ anyFailed => (xpc = "none" /\ result = None)
    /\ xpc \in {"pass", "some"} =>
          (~anyFailed /\ bamIdx = nBams /\ count = nBams)
    /\ result # None => (~anyFailed /\ count = nBams)

\* C8 witness: a sample failed after another had been added to the sums,
\* and the call returned None
C8_Witness ==
    /\ anyFailed
    /\ count >= 1
    /\ count < nBams
    /\ sumAlts # None
    /\ xpc = "none"
    /\ result = None

\* C10: when both scans of a pass have an accepted position, the pass
\* returns (p* + window_len, r*), p* the largest accepted left position and
\* r* the smallest accepted right position; p* = 0 included.
C10_ReturnsAcceptedSpan ==
    \A i \in ReturnedPasses \cup FailedPass :
        LET w == WindowLens[i]
            la == LeftAccepted(signal, spans[i], w)
            ra == RightAccepted(signal, spans[i], w)
        IN  (la # {} /\ ra # {}) =>
                /\ i \in ReturnedPasses
                /\ spans[i + 1] = <<SetMax(la) + w, SetMin(ra)>>

(***************************************************************************)
(* profile.rs : update_profs and get_profile                               *)
(***************************************************************************)
\* the region handed to get_profile: (chrom, region.1, region.2)
RegionStart == 2
RegionEnd == 8
\* most records fetched from a file that holds arbitrary records
MaxRecs == 1
\* most records fetched from a deep file
MaxFetch == 202

\* "Absolute max depth", line 35
MaxDepthIndex == 200
\* the mapping quality floor, line 29
MinMapq == 50
\* the overlap that makes an operation strong, lines 93 and 101
StrongLen == 5
\* any_alt >= 3, line 47
MinStrongRecords == 3

TheRegion == <<RegionStart, RegionEnd>>

OpKinds == {"Match", "Equal", "Diff", "Del", "Ins", "SoftClip", "HardClip",
            "Pad", "RefSkip"}
OpLens == {1, StrongLen}
Ops == [kind : OpKinds, len : OpLens]
\* cigars of one or two operations
Cigars == {<<a>> : a \in Ops} \cup {<<a, b>> : a \in Ops, b \in Ops}

Rec(sec, sup, mapq, pos, cigar, err) ==
    [secondary |-> sec, supplementary |-> sup, mapq |-> mapq, pos |-> pos,
     cigar |-> cigar, err |-> err]

\* a record the iterator fails on (line 27), and the three ways of being
\* discarded (line 29)
ErrRecord == Rec(FALSE, FALSE, MinMapq, RegionStart, <<>>, TRUE)
SecondaryRecord ==
    Rec(TRUE, FALSE, MinMapq, RegionStart,
        <<[kind |-> "Del", len |-> StrongLen]>>, FALSE)
SupplementaryRecord ==
    Rec(FALSE, TRUE, MinMapq, RegionStart,
        <<[kind |-> "Del", len |-> StrongLen]>>, FALSE)
LowMapqRecord ==
    Rec(FALSE, FALSE, MinMapq - 1, RegionStart,
        <<[kind |-> "Del", len |-> StrongLen]>>, FALSE)
\* a retained record with one deletion of StrongLen inside the region
DelRecord ==
    Rec(FALSE, FALSE, MinMapq, RegionStart,
        <<[kind |-> "Del", len |-> StrongLen]>>, FALSE)

\* the records of a file that holds arbitrary primary records around the
\* region start, and of a deep file
RichRecords ==
    {Rec(FALSE, FALSE, MinMapq, pos, cigar, FALSE) :
        pos \in (RegionStart - 1)..(RegionStart + 1), cigar \in Cigars}
    \cup {ErrRecord, SecondaryRecord, SupplementaryRecord, LowMapqRecord}
DeepRecords == {LowMapqRecord, DelRecord}

Pool == IF bamKind = "rich" THEN RichRecords ELSE DeepRecords
FetchLimit == IF bamKind = "rich" THEN MaxRecs ELSE MaxFetch

\* get_ref_len
GetRefLen(op) ==
    IF op.kind \in {"Match", "RefSkip", "Del", "Equal", "Diff"} THEN op.len
    ELSE 0

\* `any_alt = clipped_len >= 5`: assignment instead of |=
OrStrongAssign(any_alt, clipped_len) == clipped_len >= StrongLen

\* `any_alt |= clipped_len >= 5`, lines 93 and 101
OrStrong(any_alt, clipped_len) == any_alt \/ clipped_len >= StrongLen

\* vec[from..from + n], each element + 1 (0-based from)
BumpSlice(vec, from, n) ==
    [i \in 1..Len(vec) |-> IF i > from /\ i <= from + n THEN vec[i] + 1
                           ELSE vec[i]]
\* vec[idx] += n (0-based idx)
BumpAt(vec, idx, n) == [vec EXCEPT ![idx + 1] = @ + n]

\* lines 72-112: what one operation inside the region does to the state st
\* of the walk
ApplyOp(op, st, region) ==
    LET ref_pos == st.ref_pos
        op_len == GetRefLen(op)
        clipped_start == Max(ref_pos, region[1])
        clipped_end == Min(ref_pos + op_len, region[2])
        clipped_len == clipped_end - clipped_start
        idx == clipped_start - region[1]
        inside == ref_pos >= region[1] /\ ref_pos < region[2]
    IN  CASE op.kind \in {"Match", "Equal"} ->
               [st EXCEPT !.covs = BumpSlice(@, idx, clipped_len)]
          [] op.kind \in {"Diff", "Del"} ->
               [st EXCEPT !.covs = BumpSlice(@, idx, clipped_len),
                          !.alts = BumpSlice(@, idx, clipped_len),
                          !.any_alt = OrStrong(@, clipped_len)]
          [] op.kind = "Ins" ->
               [st EXCEPT !.alts = IF inside
                                   THEN BumpAt(@, ref_pos - region[1], op.len)
                                   ELSE @,
                          !.any_alt = OrStrong(@, clipped_len)]
          [] op.kind = "SoftClip" ->
               [st EXCEPT !.alts = IF inside
                                   THEN BumpAt(@, ref_pos - region[1], 1)
                                   ELSE @]
          [] op.kind \in {"HardClip", "Pad", "RefSkip"} ->
               [st EXCEPT !.panic = TRUE]

\* lines 115-118
Advance(op) ==
    IF op.kind \in {"Ins", "SoftClip", "HardClip", "Pad"} THEN 0
    ELSE GetRefLen(op)

\* the loop of lines 58-119 from operation i on
RECURSIVE Walk(_, _, _, _)
Walk(ops, i, st, region) ==
    IF i > Len(ops) THEN st
    ELSE LET op == ops[i]
             op_len == GetRefLen(op)
         IN  IF st.ref_pos + op_len <= region[1]
             THEN Walk(ops, i + 1, [st EXCEPT !.ref_pos = @ + op_len], region)
             ELSE IF st.ref_pos >= region[2] THEN st
             ELSE LET st2 == ApplyOp(op, st, region)
                  IN  IF st2.panic THEN st2
                      ELSE Walk(ops, i + 1,
                                [st2 EXCEPT !.ref_pos = @ + Advance(op)],
                                region)

\* update_profs(rec, covs, alts, region): the vectors after the call, the
\* bool returned, the reference cursor at the end, or a panic
UpdateProfs(rec, covs0, alts0, region) ==
    Walk(rec.cigar, 1,
         [ref_pos |-> rec.pos, covs |-> covs0, alts |-> alts0,
          any_alt |-> FALSE, panic |-> FALSE],
         region)

\* line 29
Discarded(rec) == rec.secondary \/ rec.supplementary \/ rec.mapq < MinMapq

RECURSIVE SumSeq(_, _)
SumSeq(vec, i) == IF i > Len(vec) THEN 0 ELSE vec[i] + SumSeq(vec, i + 1)

\* lines 40-47: Ok((Prof { alts, depth }, any_alt >= 3)).  depth is the
\* quotient depth_num / depth_den, and alts[i] the quotient
\* alts_num[i] / alts_den, which is alts[i] / max(depth, 1.0).
ProfOk(c, a, n) ==
    [kind |-> "ok",
     depth_num |-> SumSeq(c, 1), depth_den |-> Len(c),
     alts_num |-> [i \in 1..Len(a) |-> a[i] * Len(c)],
     alts_den |-> Max(SumSeq(c, 1), Len(c)),
     any_alt |-> n >= MinStrongRecords]
ProfErr(e) == [kind |-> "err", err |-> e]

\* lines 21-24: the vectors are made and the region fetched
Fetch ==
    /\ ppc = "fetch"
    /\ \/ /\ ppc' = "loop"
          /\ UNCHANGED profResult
       \/ /\ ppc' = "err"
          /\ profResult' = Some(ProfErr("fetch"))
    /\ UNCHANGED <<bamKind, index, covs, palts, anyAlt, lastRec, lastStrong,
                   nRetained>>
    /\ UNCHANGED <<xvars, mvars>>

\* lines 26-38: one iteration of the loop over the records
NextRecord ==
    /\ ppc = "loop"
    /\ index < FetchLimit
    /\ \E rec \in Pool :
         /\ lastRec' = Some(rec)
         /\ \/ /\ rec.err
               /\ ppc' = "err"
               /\ profResult' = Some(ProfErr("record"))
               /\ UNCHANGED <<index, covs, palts, anyAlt, nRetained>>
               /\ lastStrong' = FALSE
            \/ /\ ~rec.err
               /\ Discarded(rec)
               /\ index' = index + 1
               /\ lastStrong' = FALSE
               /\ UNCHANGED <<ppc, profResult, covs, palts, anyAlt, nRetained>>
            \/ /\ ~rec.err
               /\ ~Discarded(rec)
               /\ nRetained' = nRetained + 1
               /\ LET u == UpdateProfs(rec, covs, palts, TheRegion)
                  IN  \/ /\ u.panic
                         /\ ppc' = "panicked"
                         /\ lastStrong' = FALSE
                         /\ UNCHANGED <<index, covs, palts, anyAlt, profResult>>
                      \/ /\ ~u.panic
                         /\ covs' = u.covs
                         /\ palts' = u.alts
                         /\ lastStrong' = u.any_alt
                         /\ anyAlt' = anyAlt + (IF u.any_alt THEN 1 ELSE 0)
                         /\ \/ /\ index >= MaxDepthIndex
                               /\ ppc' = "err"
                               /\ profResult' = Some(ProfErr("High depth"))
                               /\ UNCHANGED index
                            \/ /\ index < MaxDepthIndex
                               /\ index' = index + 1
                               /\ UNCHANGED <<ppc, profResult>>
    /\ UNCHANGED bamKind
    /\ UNCHANGED <<xvars, mvars>>

\* lines 40-47: the iterator is exhausted
EndOfRecords ==
    /\ ppc = "loop"
    /\ ppc' = "ok"
    /\ profResult' = Some(ProfOk(covs, palts, anyAlt))
    /\ UNCHANGED <<bamKind, index, covs, palts, anyAlt, lastRec, lastStrong,
                   nRetained>>
    /\ UNCHANGED <<xvars, mvars>>

InitProfile ==
    /\ ppc = "fetch"
    /\ bamKind \in {"rich", "deep"}
    /\ index = 0
    /\ covs = [i \in 1..(RegionEnd - RegionStart) |-> 0]
    /\ palts = [i \in 1..(RegionEnd - RegionStart) |-> 0]
    /\ anyAlt = 0
    /\ lastRec = None /\ lastStrong = FALSE /\ nRetained = 0
    /\ profResult = None
    /\ XIdle /\ MIdle

NextProfile == Fetch \/ NextRecord \/ EndOfRecords

SpecProfile == InitProfile /\ [][NextProfile]_vars

(***************************************************************************)
(* Claims about profile.rs                                                 *)
(***************************************************************************)
\* the reference position at which operation i of rec starts
RECURSIVE OpStart(_, _)
OpStart(rec, i) ==
    IF i = 1 THEN rec.pos
    ELSE OpStart(rec, i - 1) + GetRefLen(rec.cigar[i - 1])

\* how many region positions operation i of rec covers
Overlap(rec, i) ==
    Max(0, Min(OpStart(rec, i) + GetRefLen(rec.cigar[i]), RegionEnd)
           - Max(OpStart(rec, i), RegionStart))

\* operation i is anchored at a position of the region
AnchoredInside(rec, i) ==
    OpStart(rec, i) >= RegionStart /\ OpStart(rec, i) < RegionEnd

\* the operations of rec that individually qualify as strong: a mismatch,
\* deletion or insertion whose region overlap is at least StrongLen
StrongOpsOf(rec) ==
    {i \in 1..Len(rec.cigar) :
        /\ rec.cigar[i].kind \in {"Diff", "Del", "Ins"}
        /\ Overlap(rec, i) >= StrongLen}

\* the walk meets a hard clip, pad or reference skip that is neither
\* before the region nor past it
ReachesPanic(rec) ==
    \E i \in 1..Len(rec.cigar) :
        /\ rec.cigar[i].kind \in {"HardClip", "Pad", "RefSkip"}
        /\ OpStart(rec, i) + GetRefLen(rec.cigar[i]) > RegionStart
        /\ OpStart(rec, i) < RegionEnd

\* rec passes the filter and update_profs returns
Processed(rec) == ~rec.err /\ ~Discarded(rec) /\ ~ReachesPanic(rec)

\* a step of the loop over the records
RecordStep == ppc = "loop" /\ ppc' # "ok" /\ lastRec' # None

\* C4: get_profile fails with "High depth" exactly when more than 200
\* records remain after the discarded ones are left out: discarded records
\* do not count toward the ceiling.
C4_HighDepthIffOver200Retained ==
    /\ (ppc = "err" /\ profResult = Some(ProfErr("High depth")))
          => nRetained > MaxDepthIndex
    /\ ppc \in {"loop", "ok"} => nRetained <= MaxDepthIndex

\* C5 as claimed: a record is counted toward the strong-alteration count
\* only if at least 3 of its operations individually qualified as strong.
C5_CountedOnlyWithThreeStrongOps ==
    lastStrong => Cardinality(StrongOpsOf(lastRec[1])) >= MinStrongRecords

\* C5 as amended: a retained record raises the count (by one) exactly when
\* at least 1 of its operations individually qualified as strong; no other
\* record changes the count.
C5_CountedIffOneStrongOp ==
    [][RecordStep =>
          anyAlt' - anyAlt =
             (IF Processed(lastRec'[1]) /\ StrongOpsOf(lastRec'[1]) # {}
              THEN 1 ELSE 0)]_vars

\* C5 witness: a record with exactly one strong operation (and a second,
\* weak one after it) was counted
C5_Witness ==
    /\ ppc = "loop"
    /\ lastRec # None
    /\ lastStrong
    /\ anyAlt = 1
    /\ Len(lastRec[1].cigar) = 2
    /\ StrongOpsOf(lastRec[1]) = {1}
    /\ lastRec[1].cigar[2].kind \in {"Diff", "Del"}

\* the insertion lengths of rec anchored at region position k (0-based)
RECURSIVE InsTotalAt(_, _, _)
InsTotalAt(rec, k, i) ==
    IF i > Len(rec.cigar) THEN 0
    ELSE (IF rec.cigar[i].kind = "Ins" /\ OpStart(rec, i) = RegionStart + k
          THEN rec.cigar[i].len ELSE 0)
         + InsTotalAt(rec, k, i + 1)

\* the match / equal operations of rec that cover region position k
MatchesOver(rec, k) ==
    {i \in 1..Len(rec.cigar) :
        /\ rec.cigar[i].kind \in {"Match", "Equal"}
        /\ OpStart(rec, i) <= RegionStart + k
        /\ RegionStart + k < OpStart(rec, i) + GetRefLen(rec.cigar[i])}

OnlyMatchesAndInsertions(rec) ==
    \A i \in 1..Len(rec.cigar) : rec.cigar[i].kind \in {"Match", "Equal", "Ins"}

\* C6: an insertion of length n anchored at a region position p, p =
\* region.start included, adds exactly n to alts[p - region.start] and
\* nothing to any other entry, changes no covs entry and does not move the
\* reference cursor.  Stated on records made of matches and insertions only,
\* where every change of alts is an insertion's: each alts entry grows by
\* the insertion lengths anchored there, each covs entry by the matches
\* over it.
C6_InsertionAddsItsLengthAtAnchor ==
    [][(RecordStep /\ Processed(lastRec'[1])
          /\ OnlyMatchesAndInsertions(lastRec'[1])) =>
          \A k \in 0..(RegionEnd - RegionStart - 1) :
             /\ palts'[k + 1] - palts[k + 1] = InsTotalAt(lastRec'[1], k, 1)
             /\ covs'[k + 1] - covs[k + 1]
                  = Cardinality(MatchesOver(lastRec'[1], k))]_vars

\* C9: an insertion of length >= 5 anchored inside the region marks its
\* record as carrying strong alteration evidence.  Stated for anchors after
\* region.start, where update_profs does reach the insertion.
C9_LongInsertionIsStrong ==
    (/\ lastRec # None
     /\ ppc \in {"loop", "ok"}
     /\ Processed(lastRec[1])
     /\ \E i \in 1..Len(lastRec[1].cigar) :
           /\ lastRec[1].cigar[i].kind = "Ins"
           /\ lastRec[1].cigar[i].len >= StrongLen
           /\ AnchoredInside(lastRec[1], i)
           /\ OpStart(lastRec[1], i) > RegionStart)
    => lastStrong

(***************************************************************************)
(* main.rs : main, task_thread and the two channels                        *)
(***************************************************************************)
\* args.threads
Threads == 2
\* most loci load_loci returns
MaxLoci == 2

Workers == 1..Threads
\* what run_workflow does with a locus: Ok(result), Err(message), or the
\* panic of update_profs on an unexpected operation
Outcomes == {"result", "failure", "panic"}
\* the None sent on either channel; a locus, and its result, is its number
Sentinel == 0

Loci == 1..Len(outcome)
Terminated(w) == wpc[w] \in {"exited", "failed", "panicked"}

\* the collector leaves its loop one end marker early
CollectorStopsEarly(n_done) == ~(n_done + 1 < Threads)

\* `while n_done < args.threads`, line 137: the loop is left
CollectorStops(n_done) == ~(n_done < Threads)

\* lines 67-71: the worker opens its alignment files; on an error it
\* returns Err without touching either channel
Open(w) ==
    /\ mpc \notin {"idle", "failed"}
    /\ wpc[w] = "open"
    /\ \/ wpc' = [wpc EXCEPT ![w] = "recv"]
       \/ wpc' = [wpc EXCEPT ![w] = "failed"]
    /\ UNCHANGED <<wlocus, mpc, outcome, taskq, resultq, pushed, signalled,
                   nDone, taken, runs, printed>>
    /\ UNCHANGED <<xvars, pvars>>

\* line 73: task_receiver.recv() returns the head of the task channel (it
\* blocks while the channel is empty; main keeps task_sender, so Err never
\* comes)
Recv(w) ==
    /\ mpc \notin {"idle", "failed"}
    /\ wpc[w] = "recv"
    /\ taskq # <<>>
    /\ taskq' = Tail(taskq)
    /\ \/ /\ Head(taskq) = Sentinel
          /\ wpc' = [wpc EXCEPT ![w] = "finish"]
          /\ UNCHANGED <<taken, wlocus>>
       \/ /\ Head(taskq) # Sentinel
          /\ wpc' = [wpc EXCEPT ![w] = "run"]
          /\ wlocus' = [wlocus EXCEPT ![w] = Head(taskq)]
          /\ taken' = [taken EXCEPT ![Head(taskq)] = @ + 1]
    /\ UNCHANGED <<mpc, outcome, resultq, pushed, signalled, nDone, runs,
                   printed>>
    /\ UNCHANGED <<xvars, pvars>>

\* lines 75-82: run_workflow on the locus taken, then the result is sent,
\* the failure logged, or the thread unwinds
Run(w) ==
    /\ mpc \notin {"idle", "failed"}
    /\ wpc[w] = "run"
    /\ LET locus == wlocus[w]
       IN  /\ runs' = [runs EXCEPT ![locus] = @ + 1]
           /\ wlocus' = [wlocus EXCEPT ![w] = 0]
           /\ \/ /\ outcome[locus] = "result"
                 /\ resultq' = Append(resultq, locus)
                 /\ wpc' = [wpc EXCEPT ![w] = "recv"]
              \/ /\ outcome[locus] = "failure"
                 /\ UNCHANGED resultq
                 /\ wpc' = [wpc EXCEPT ![w] = "recv"]
              \/ /\ outcome[locus] = "panic"
                 /\ UNCHANGED resultq
                 /\ wpc' = [wpc EXCEPT ![w] = "panicked"]
    /\ UNCHANGED <<mpc, outcome, taskq, pushed, signalled, nDone, taken,
                   printed>>
    /\ UNCHANGED <<xvars, pvars>>

\* lines 86-88: the end marker is sent and the thread returns Ok
SendEnd(w) ==
    /\ mpc \notin {"idle", "failed"}
    /\ wpc[w] = "finish"
    /\ resultq' = Append(resultq, Sentinel)
    /\ wpc' = [wpc EXCEPT ![w] = "exited"]
    /\ UNCHANGED <<wlocus, mpc, outcome, taskq, pushed, signalled, nDone,
                   taken, runs, printed>>
    /\ UNCHANGED <<xvars, pvars>>

\* line 125: load_loci; on Err main returns and the process ends
LoadLoci ==
    /\ mpc = "load"
    /\ \/ mpc' = "push"
       \/ mpc' = "failed"
    /\ UNCHANGED <<wlocus, wpc, outcome, taskq, resultq, pushed, signalled,
                   nDone, taken, runs, printed>>
    /\ UNCHANGED <<xvars, pvars>>

\* lines 126-128: one locus is sent
Push ==
    /\ mpc = "push"
    /\ pushed < Len(outcome)
    /\ taskq' = Append(taskq, pushed + 1)
    /\ pushed' = pushed + 1
    /\ UNCHANGED <<wlocus, mpc, wpc, outcome, resultq, signalled, nDone,
                   taken, runs, printed>>
    /\ UNCHANGED <<xvars, pvars>>

\* lines 131-133: one sentinel is sent; after the last, main collects
Signal ==
    /\ mpc = "push"
    /\ pushed = Len(outcome)
    /\ signalled < Threads
    /\ taskq' = Append(taskq, Sentinel)
    /\ signalled' = signalled + 1
    /\ mpc' = IF signalled + 1 = Threads THEN "collect" ELSE "push"
    /\ UNCHANGED <<wlocus, wpc, outcome, resultq, pushed, nDone, taken, runs,
                   printed>>
    /\ UNCHANGED <<xvars, pvars>>

\* lines 137-146: one turn of the collector loop; result_receiver.recv()
\* blocks while the result channel is empty (main keeps result_sender, so
\* Err never comes)
Collect ==
    /\ mpc = "collect"
    /\ ~CollectorStops(nDone)
    /\ resultq # <<>>
    /\ resultq' = Tail(resultq)
    /\ \/ /\ Head(resultq) = Sentinel
          /\ nDone' = nDone + 1
          /\ UNCHANGED printed
       \/ /\ Head(resultq) # Sentinel
          /\ printed' = [printed EXCEPT ![Head(resultq)] = @ + 1]
          /\ UNCHANGED nDone
    /\ UNCHANGED <<wlocus, mpc, wpc, outcome, taskq, pushed, signalled, taken,
                   runs>>
    /\ UNCHANGED <<xvars, pvars>>

\* line 137: the loop condition fails
LeaveLoop ==
    /\ mpc = "collect"
    /\ CollectorStops(nDone)
    /\ mpc' = "join"
    /\ UNCHANGED <<wlocus, wpc, outcome, taskq, resultq, pushed, signalled,
                   nDone, taken, runs, printed>>
    /\ UNCHANGED <<xvars, pvars>>

\* lines 149-154: every handle is joined (join blocks until the thread has
\* ended; unwrap panics on a thread that panicked)
Join ==
    /\ mpc = "join"
    /\ \A w \in Workers : Terminated(w)
    /\ mpc' = IF \E w \in Workers : wpc[w] = "panicked" THEN "panicked"
              ELSE "done"
    /\ UNCHANGED <<wlocus, wpc, outcome, taskq, resultq, pushed, signalled,
                   nDone, taken, runs, printed>>
    /\ UNCHANGED <<xvars, pvars>>

InitMain ==
    /\ mpc = "load"
    /\ wpc = [w \in Workers |-> "open"]
    /\ wlocus = [w \in Workers |-> 0]
    /\ \E n \in 0..MaxLoci : outcome \in [1..n -> Outcomes]
    /\ taskq = <<>> /\ resultq = <<>>
    /\ pushed = 0 /\ signalled = 0 /\ nDone = 0
    /\ taken = [l \in Loci |-> 0]
    /\ runs = [l \in Loci |-> 0]
    /\ printed = [l \in Loci |-> 0]
    /\ XIdle /\ PIdle

NextMain ==
    \/ LoadLoci \/ Push \/ Signal \/ Collect \/ LeaveLoop \/ Join
    \/ \E w \in Workers : Open(w) \/ Recv(w) \/ Run(w) \/ SendEnd(w)

SpecMain == InitMain /\ [][NextMain]_vars

(***************************************************************************)
(* Claims about main.rs                                                    *)
(***************************************************************************)
\* C2: the run terminates whatever the loci do and whether or not a worker
\* opened its files: the collector never blocks forever.  The collector
\* blocks forever in a state where it waits on an empty result channel and
\* every worker has ended, since nothing can be sent any more.
C2_CollectorNeverBlocksForever ==
    ~(/\ mpc = "collect"
      /\ ~CollectorStops(nDone)
      /\ resultq = <<>>
      /\ \A w \in Workers : Terminated(w))

\* C7: each locus is taken from the task channel and run at most once and
\* each result printed at most once; when the collector has counted its
\* N-th end marker every locus was taken and run exactly once, every result
\* pushed was printed exactly once and none is left on the result channel.
C7_ExactlyOnce ==
    /\ \A l \in Loci :
          /\ taken[l] <= 1
          /\ runs[l] <= taken[l]
          /\ printed[l] <= runs[l]
          /\ printed[l] = 1 => outcome[l] = "result"
    /\ mpc \in {"join", "done", "panicked"} =>
          /\ resultq = <<>>
          /\ \A l \in Loci :
                /\ taken[l] = 1
                /\ runs[l] = 1
                /\ printed[l] = (IF outcome[l] = "result" THEN 1 ELSE 0)

\* C7 witness: the collector stopped after a run with a printed result and
\* a locus that failed
C7_Witness ==
    /\ mpc = "done"
    /\ Len(outcome) >= 2
    /\ \E l \in Loci : printed[l] = 1
    /\ \E l \in Loci : outcome[l] = "failure" /\ runs[l] = 1

====
